---- MODULE Spec2Model ----
(***************************************************************************)
(* Model of bubop/fs.py: FileType.exists, valid_path, get_valid_filename.  *)
(* Strings are sequences of one-character strings.  A pathlib.Path is a    *)
(* record [root, parts]; the filesystem is a finite tree of typed nodes.   *)
(***************************************************************************)
EXTENDS Integers, Sequences, FiniteSets, TLC

VARIABLES
    fs,         \* the filesystem tree: node -> type (never written by the code)
    home,       \* whether a home directory can be determined for "~"
    s,          \* the input string of the sequential caller
    vp,         \* FileType -> outcome of valid_path(s, filetype=kind)
    vpDefault,  \* outcome of valid_path(s)
    ex,         \* FileType -> outcome of kind.exists(Path(s))
    tpc,        \* thread -> position inside its call
    tin,        \* thread -> [s, kind] arguments of its call
    tpath,      \* thread -> the local variable `path` of its valid_path frame
    tres,       \* thread -> outcome of its call
    fin,        \* the argument of get_valid_filename
    fout,       \* the value it returned
    fout2       \* the value returned for fout as the argument

vars == <<fs, home, s, vp, vpDefault, ex, tpc, tin, tpath, tres, fin, fout, fout2>>

\* ------------------------------------------------------------------ bounds
MaxLen == 4      \* longest input string given to valid_path / Path
MaxStr == 4      \* longest input string given to get_valid_filename

\* ------------------------------------------------------------ strings
Sep == "/"
PathChars == {"/", "~", ".", "a"}
PathStrings == UNION {[1..n -> PathChars] : n \in 0..MaxLen}

\* ------------------------------------------------------------ FileType
FILE == "FILE"
DIR == "DIR"
FILE_OR_DIR == "FILE_OR_DIR"
FileType == {FILE, DIR, FILE_OR_DIR}

\* ------------------------------------------------------- the environment
\* Name of the only directory entry the modelled tree uses, and the tree's
\* nodes: /a and /a/a (the root always exists and is a searchable directory).
NameA == <<"a">>
FsNodes == {<<NameA>>, <<NameA, NameA>>}
\* "locked" is a directory without search permission for the caller,
\* "other" an entity that is neither a regular file nor a directory.
NodeTypes == {"none", "file", "dir", "locked", "other"}
IsDirType(t) == t \in {"dir", "locked"}
FileSystems ==
    {f \in [FsNodes -> NodeTypes] :
        \A n \in FsNodes :
            (Len(n) > 1 /\ f[n] # "none") => IsDirType(f[SubSeq(n, 1, Len(n) - 1)])}
\* The process's working directory (a node) used for relative paths.
Cwd == <<>>
\* Home directory strings: $HOME / the passwd entry of the invoking user, and
\* the passwd database for ~user.  "nohome" is the environment in which
\* neither $HOME nor a passwd entry for the uid exists.
HomeDir == <<"/", "a">>
HomeEnvs == {"home", "nohome"}
KnownUsers == {<<"a">>}

TypeOf(f, node) ==
    IF node = <<>> THEN "dir"
    ELSE IF node \in DOMAIN f THEN f[node] ELSE "none"

\* os.stat(path), following the components from the root or the cwd.
RECURSIVE Walk(_, _, _)
Walk(f, cur, parts) ==
    LET t == TypeOf(f, cur) IN
    IF parts = <<>> THEN
        CASE t = "none" -> "ENOENT"
          [] t = "file" -> "REG"
          [] t = "other" -> "OTHER"
          [] OTHER -> "DIR"
    ELSE
        CASE t = "none" -> "ENOENT"
          [] t \in {"file", "other"} -> "ENOTDIR"
          [] t = "locked" -> "EACCES"
          [] OTHER ->
               IF Head(parts) = <<".", ".">>
               THEN Walk(f, IF cur = <<>> THEN <<>> ELSE SubSeq(cur, 1, Len(cur) - 1),
                         Tail(parts))
               ELSE Walk(f, Append(cur, Head(parts)), Tail(parts))

Stat(f, p) == Walk(f, IF p.root = <<>> THEN Cwd ELSE <<>>, p.parts)

\* ------------------------------------------------------------ pathlib.Path
RECURSIVE SplitSep(_, _)
SplitSep(str, cur) ==
    IF str = <<>> THEN <<cur>>
    ELSE IF Head(str) = Sep THEN <<cur>> \o SplitSep(Tail(str), <<>>)
    ELSE SplitSep(Tail(str), Append(cur, Head(str)))

RECURSIVE LStripSep(_)
LStripSep(str) ==
    IF str # <<>> /\ Head(str) = Sep THEN LStripSep(Tail(str)) ELSE str

\* _PosixFlavour.splitroot: exactly two leading slashes are kept as "//".
SplitRoot(str) ==
    LET stripped == LStripSep(str)
        n == Len(str) - Len(stripped) IN
    IF n = 0 THEN [root |-> <<>>, rel |-> str]
    ELSE IF n = 2 THEN [root |-> <<Sep, Sep>>, rel |-> stripped]
    ELSE [root |-> <<Sep>>, rel |-> stripped]

RECURSIVE KeepParts(_)
KeepParts(cs) ==
    IF cs = <<>> THEN <<>>
    ELSE IF Head(cs) = <<>> \/ Head(cs) = <<".">> THEN KeepParts(Tail(cs))
    ELSE <<Head(cs)>> \o KeepParts(Tail(cs))

\* Path(s) made absolute against the root
ParsePathAbsolute(str) ==
    LET sr == SplitRoot(str) IN
    [root |-> IF sr.root = <<>> THEN <<Sep>> ELSE sr.root,
     parts |-> KeepParts(SplitSep(sr.rel, <<>>))]

\* Path(s)
ParsePath(str) ==
    LET sr == SplitRoot(str) IN
    [root |-> sr.root, parts |-> KeepParts(SplitSep(sr.rel, <<>>))]

RECURSIVE JoinSep(_)
JoinSep(ps) ==
    IF ps = <<>> THEN <<>>
    ELSE IF Len(ps) = 1 THEN Head(ps)
    ELSE Head(ps) \o <<Sep>> \o JoinSep(Tail(ps))

\* str(path)
StrPath(p) ==
    LET t == p.root \o JoinSep(p.parts) IN
    IF t = <<>> THEN <<".">> ELSE t

\* os.path.expanduser applied to one component that starts with "~":
\* the home directory string, or the component itself when it is unknown.
OsExpandUser(h, comp) ==
    IF Len(comp) = 1
    THEN IF h = "home" THEN HomeDir ELSE comp
    ELSE IF Tail(comp) \in KnownUsers THEN HomeDir ELSE comp

\* Path.expanduser: [exc, val] with val a sequence holding the path.
ExpandUser(h, p) ==
    IF p.root = <<>> /\ p.parts # <<>> /\ Head(Head(p.parts)) = "~"
    THEN LET homedir == OsExpandUser(h, Head(p.parts)) IN
         IF Head(homedir) = "~"
         THEN [exc |-> "RuntimeError", val |-> <<>>]
         ELSE LET hp == ParsePath(homedir) IN
              [exc |-> "", val |-> <<[root |-> hp.root,
                                      parts |-> hp.parts \o Tail(p.parts)]>>]
    ELSE [exc |-> "", val |-> <<p>>]

\* --------------------------------------------------------------- FileType
\* Path.is_file / is_dir / exists: [exc, val]; an OSError other than
\* ENOENT, ENOTDIR, EBADF, ELOOP is re-raised by pathlib.
is_file(f, p) ==
    LET st == Stat(f, p) IN
    IF st = "EACCES" THEN [exc |-> "PermissionError", val |-> <<>>]
    ELSE [exc |-> "", val |-> <<st = "REG">>]

\* a directory test that accepts whatever exists
is_dir_as_exists(f, p) ==
    LET st == Stat(f, p) IN
    IF st = "EACCES" THEN [exc |-> "PermissionError", val |-> <<>>]
    ELSE [exc |-> "", val |-> <<st \in {"REG", "DIR", "OTHER"}>>]

is_dir(f, p) ==
    LET st == Stat(f, p) IN
    IF st = "EACCES" THEN [exc |-> "PermissionError", val |-> <<>>]
    ELSE [exc |-> "", val |-> <<st = "DIR">>]

path_exists(f, p) ==
    LET st == Stat(f, p) IN
    IF st = "EACCES" THEN [exc |-> "PermissionError", val |-> <<>>]
    ELSE [exc |-> "", val |-> <<st \in {"REG", "DIR", "OTHER"}>>]

\* the table with the DIR entry bound to is_file
exists_fn_dir_is_file(kind, f, p) ==
    CASE kind = FILE -> is_file(f, p)
      [] kind = DIR -> is_file(f, p)
      [] kind = FILE_OR_DIR -> path_exists(f, p)

file_type_to_exists_fn(kind, f, p) ==
    CASE kind = FILE -> is_file(f, p)
      [] kind = DIR -> is_dir(f, p)
      [] kind = FILE_OR_DIR -> path_exists(f, p)

\* the table with the FILE and DIR errors exchanged
not_exists_exc_swapped(kind) ==
    CASE kind = FILE -> "NotADirectoryError"
      [] kind = DIR -> "FileNotFoundError"
      [] kind = FILE_OR_DIR -> "NoSuchFileOrDirectoryError"

file_type_to_not_exists_exc(kind) ==
    CASE kind = FILE -> "FileNotFoundError"
      [] kind = DIR -> "NotADirectoryError"
      [] kind = FILE_OR_DIR -> "NoSuchFileOrDirectoryError"

\* FileType.exists(self, path)
exists(kind, f, p) == file_type_to_exists_fn(kind, f, p)

\* -------------------------------------------------------------- valid_path
Pending == [tag |-> "pending", exc |-> "", val |-> <<>>]
Raise(e, args) == [tag |-> "raise", exc |-> e, val |-> args]
Return(v) == [tag |-> "return", exc |-> "", val |-> <<v>>]

\* the check raising its error without the path
CheckPathNoArg(f, path, filetype) ==
    LET r == exists(filetype, f, path) IN
    IF r.exc # "" THEN Raise(r.exc, <<path>>)
    ELSE IF ~r.val[1] THEN Raise(file_type_to_not_exists_exc(filetype), <<>>)
    ELSE Return(path)

\* The check and the exit of valid_path, given the local `path`.
\* (An OSError re-raised by the predicate names the path as its filename.)
CheckPath(f, path, filetype) ==
    LET r == exists(filetype, f, path) IN
    IF r.exc # "" THEN Raise(r.exc, <<path>>)
    ELSE IF ~r.val[1] THEN Raise(file_type_to_not_exists_exc(filetype), <<path>>)
    ELSE Return(path)

valid_path(f, h, str, filetype) ==
    LET e == ExpandUser(h, ParsePath(str)) IN
    IF e.exc # "" THEN Raise(e.exc, <<>>)
    ELSE CheckPath(f, e.val[1], filetype)

\* ------------------------------------------------- the sequential caller
Order == <<FILE, DIR, FILE_OR_DIR>>
Index(k) == CHOOSE i \in 1..Len(Order) : Order[i] = k
DoneBefore(log, k) == \A j \in 1..(Index(k) - 1) : log[Order[j]] # Pending
AllDone(log) == \A k \in FileType : log[k] # Pending

IdleThreads ==
    /\ tpc = <<>> /\ tin = <<>> /\ tpath = <<>> /\ tres = <<>>
IdleFilename ==
    /\ fin = <<>> /\ fout = <<>> /\ fout2 = <<>>

Init ==
    /\ fs \in FileSystems
    /\ home \in HomeEnvs
    /\ s \in PathStrings
    /\ vp = [k \in FileType |-> Pending]
    /\ vpDefault = Pending
    /\ ex = [k \in FileType |-> Pending]
    /\ IdleThreads
    /\ IdleFilename

CallValidPath(k) ==
    /\ vp[k] = Pending
    /\ DoneBefore(vp, k)
    /\ vp' = [vp EXCEPT ![k] = valid_path(fs, home, s, k)]
    /\ UNCHANGED <<fs, home, s, vpDefault, ex, tpc, tin, tpath, tres, fin, fout, fout2>>

CallValidPathDefault ==
    /\ AllDone(vp)
    /\ vpDefault = Pending
    /\ vpDefault' = valid_path(fs, home, s, FILE_OR_DIR)
    /\ UNCHANGED <<fs, home, s, vp, ex, tpc, tin, tpath, tres, fin, fout, fout2>>

CallExists(k) ==
    /\ vpDefault # Pending
    /\ ex[k] = Pending
    /\ DoneBefore(ex, k)
    /\ ex' = [ex EXCEPT ![k] =
                LET r == exists(k, fs, ParsePath(s)) IN
                IF r.exc # "" THEN Raise(r.exc, <<>>) ELSE Return(r.val[1])]
    /\ UNCHANGED <<fs, home, s, vp, vpDefault, tpc, tin, tpath, tres, fin, fout, fout2>>

Next ==
    \/ \E k \in FileType : CallValidPath(k)
    \/ CallValidPathDefault
    \/ \E k \in FileType : CallExists(k)

Spec == Init /\ [][Next]_vars

\* ------------------------------------------------------ get_valid_filename
FileChars == {"a", "5", "_", "-", ".", " ", "\t", "*"}
FileStrings == UNION {[1..n -> FileChars] : n \in 0..MaxStr}

\* str.isspace of one character
IsSpace(c) == c \in {" ", "\t"}
\* the regular expression's \w (Unicode word character) and the class [-\w.]
IsWord(c) == c \in {"a", "5", "_"}
InClass(c) == c = "-" \/ IsWord(c) \/ c = "."

RECURSIVE LStrip(_)
LStrip(str) ==
    IF str # <<>> /\ IsSpace(Head(str)) THEN LStrip(Tail(str)) ELSE str

RECURSIVE RStrip(_)
RStrip(str) ==
    IF str # <<>> /\ IsSpace(str[Len(str)])
    THEN RStrip(SubSeq(str, 1, Len(str) - 1)) ELSE str

RECURSIVE LStripBlank(_)
LStripBlank(str) ==
    IF str # <<>> /\ Head(str) = " " THEN LStripBlank(Tail(str)) ELSE str

RECURSIVE RStripBlank(_)
RStripBlank(str) ==
    IF str # <<>> /\ str[Len(str)] = " "
    THEN RStripBlank(SubSeq(str, 1, Len(str) - 1)) ELSE str

\* str.strip(" ")
StripBlankOnly(str) == RStripBlank(LStripBlank(str))

\* str.strip()
Strip(str) == RStrip(LStrip(str))

\* str.replace(" ", "")
ReplaceSpaceDelete(str) == SelectSeq(str, LAMBDA c : c # " ")

\* str.replace(" ", "_")
ReplaceSpace(str) == [i \in 1..Len(str) |-> IF str[i] = " " THEN "_" ELSE str[i]]

\* re.sub(r"(?u)[^\w.]", "_", str)
ReSubNoHyphen(str) ==
    [i \in 1..Len(str) |-> IF IsWord(str[i]) \/ str[i] = "." THEN str[i] ELSE "_"]

\* re.sub(r"(?u)[^-\w.]", " ", str)
ReSubBlank(str) == [i \in 1..Len(str) |-> IF InClass(str[i]) THEN str[i] ELSE " "]

\* re.sub(r"(?u)[^-\w.]", "_", str)
ReSub(str) == [i \in 1..Len(str) |-> IF InClass(str[i]) THEN str[i] ELSE "_"]

get_valid_filename(str) == ReSub(ReplaceSpace(Strip(str)))

IdleCaller ==
    /\ fs = [n \in FsNodes |-> "none"]
    /\ home = "home"
    /\ s = <<>>
    /\ vp = [k \in FileType |-> Pending]
    /\ vpDefault = Pending
    /\ ex = [k \in FileType |-> Pending]

InitFilename ==
    /\ fin \in FileStrings
    /\ fout = <<>>
    /\ fout2 = <<>>
    /\ IdleCaller
    /\ IdleThreads

\* get_valid_filename(fin)
Sanitize ==
    /\ fout = <<>>
    /\ fout' = <<get_valid_filename(fin)>>
    /\ UNCHANGED <<fs, home, s, vp, vpDefault, ex, tpc, tin, tpath, tres, fin, fout2>>

\* get_valid_filename applied to the value it returned
SanitizeAgain ==
    /\ fout # <<>>
    /\ fout2 = <<>>
    /\ fout2' = <<get_valid_filename(fout[1])>>
    /\ UNCHANGED <<fs, home, s, vp, vpDefault, ex, tpc, tin, tpath, tres, fin, fout>>

NextFilename == Sanitize \/ SanitizeAgain

SpecFilename == InitFilename /\ [][NextFilename]_vars

\* ------------------------------------------------------ concurrent callers
Threads == {"t1", "t2"}
ThreadInputs == {<<"~">>, <<"~", "~">>, <<"/", "a">>, <<"a", "/", "a">>}
NoCall == [op |-> "", s |-> <<>>, kind |-> ""]

InitThreads ==
    /\ fs \in FileSystems
    /\ home \in HomeEnvs
    /\ s = <<>>
    /\ vp = [k \in FileType |-> Pending]
    /\ vpDefault = Pending
    /\ ex = [k \in FileType |-> Pending]
    /\ tpc = [t \in Threads |-> "idle"]
    /\ tin = [t \in Threads |-> NoCall]
    /\ tpath = [t \in Threads |-> <<>>]
    /\ tres = [t \in Threads |-> Pending]
    /\ IdleFilename

\* `path` kept in one module-level variable that every frame writes
SharedPath(t) ==
    tpath[CHOOSE u \in Threads : tpath[u] # <<>>][1]

\* The local variable `path` of thread t's valid_path frame.
LocalPath(t) == tpath[t][1]

\* thread t enters valid_path(str, filetype=k)
TCallValidPath(t, str, k) ==
    /\ tpc[t] = "idle"
    /\ tpc' = [tpc EXCEPT ![t] = "called"]
    /\ tin' = [tin EXCEPT ![t] = [op |-> "valid_path", s |-> str, kind |-> k]]
    /\ tres' = [tres EXCEPT ![t] = Pending]
    /\ UNCHANGED <<fs, home, s, vp, vpDefault, ex, tpath, fin, fout, fout2>>

\* path = Path(s).expanduser()
TExpand(t) ==
    /\ tpc[t] = "called"
    /\ tin[t].op = "valid_path"
    /\ LET e == ExpandUser(home, ParsePath(tin[t].s)) IN
       IF e.exc # ""
       THEN /\ tpc' = [tpc EXCEPT ![t] = "done"]
            /\ tres' = [tres EXCEPT ![t] = Raise(e.exc, <<>>)]
            /\ UNCHANGED tpath
       ELSE /\ tpc' = [tpc EXCEPT ![t] = "expanded"]
            /\ tpath' = [tpath EXCEPT ![t] = e.val]
            /\ UNCHANGED tres
    /\ UNCHANGED <<fs, home, s, vp, vpDefault, ex, tin, fin, fout, fout2>>

\* if not filetype.exists(path): raise ...; return path
TCheck(t) ==
    /\ tpc[t] = "expanded"
    /\ tpc' = [tpc EXCEPT ![t] = "done"]
    /\ tres' = [tres EXCEPT ![t] = CheckPath(fs, LocalPath(t), tin[t].kind)]
    /\ tpath' = [tpath EXCEPT ![t] = <<>>]
    /\ UNCHANGED <<fs, home, s, vp, vpDefault, ex, tin, fin, fout, fout2>>

\* thread t enters k.exists(Path(str))
TCallExists(t, str, k) ==
    /\ tpc[t] = "idle"
    /\ tpc' = [tpc EXCEPT ![t] = "called"]
    /\ tin' = [tin EXCEPT ![t] = [op |-> "exists", s |-> str, kind |-> k]]
    /\ tres' = [tres EXCEPT ![t] = Pending]
    /\ UNCHANGED <<fs, home, s, vp, vpDefault, ex, tpath, fin, fout, fout2>>

TExists(t) ==
    /\ tpc[t] = "called"
    /\ tin[t].op = "exists"
    /\ tpc' = [tpc EXCEPT ![t] = "done"]
    /\ tres' = [tres EXCEPT ![t] =
                  LET r == exists(tin[t].kind, fs, ParsePath(tin[t].s)) IN
                  IF r.exc # "" THEN Raise(r.exc, <<>>) ELSE Return(r.val[1])]
    /\ UNCHANGED <<fs, home, s, vp, vpDefault, ex, tin, tpath, fin, fout, fout2>>

\* the caller takes the outcome; the thread may call again
TReturn(t) ==
    /\ tpc[t] = "done"
    /\ tpc' = [tpc EXCEPT ![t] = "idle"]
    /\ tin' = [tin EXCEPT ![t] = NoCall]
    /\ tres' = [tres EXCEPT ![t] = Pending]
    /\ UNCHANGED <<fs, home, s, vp, vpDefault, ex, tpath, fin, fout, fout2>>

NextThreads ==
    \E t \in Threads :
        \/ \E str \in ThreadInputs, k \in FileType : TCallValidPath(t, str, k)
        \/ TExpand(t)
        \/ TCheck(t)
        \/ \E str \in ThreadInputs, k \in FileType : TCallExists(t, str, k)
        \/ TExists(t)
        \/ TReturn(t)

SpecThreads == InitThreads /\ [][NextThreads]_vars

\* ================================================================= claims
\* Statements about the outcomes recorded by the callers above.

\* what each kind asks of the entity os.stat finds
KindMatches(k, st) ==
    \/ k = FILE /\ st = "REG"
    \/ k = DIR /\ st = "DIR"
    \/ k = FILE_OR_DIR /\ st \in {"REG", "DIR", "OTHER"}

MatchingError(k) ==
    IF k = FILE THEN "FileNotFoundError"
    ELSE IF k = DIR THEN "NotADirectoryError"
    ELSE "NoSuchFileOrDirectoryError"

ThreeErrors == {"FileNotFoundError", "NotADirectoryError", "NoSuchFileOrDirectoryError"}

\* the expansion of the caller's input, and what os.stat answers for it
Expanded == ExpandUser(home, ParsePath(s))
ExpansionFails == Expanded.exc # ""
LookupDenied == ~ExpansionFails /\ Stat(fs, Expanded.val[1]) = "EACCES"
PredicateTrue(k) ==
    /\ ~ExpansionFails
    /\ KindMatches(k, Stat(fs, Expanded.val[1]))

\* C1 as stated: for every kind and every input string, valid_path succeeds
\* iff the kind's predicate is true of the expanded path, and otherwise
\* fails with the error matching the kind.
C1_AsStated ==
    \A k \in FileType :
        vp[k] # Pending =>
            IF PredicateTrue(k) THEN vp[k].tag = "return"
            ELSE vp[k].tag = "raise" /\ vp[k].exc = MatchingError(k)

\* C1 amended: when the expansion succeeds and the lookup is not denied,
\* valid_path succeeds iff the kind's predicate is true of the expanded path
\* and otherwise fails with the error matching the kind; when no home
\* directory can be determined it fails with RuntimeError for every kind, and
\* when the lookup is denied it fails with the lookup's PermissionError.
C1_SucceedsIffPredicate ==
    \A k \in FileType :
        vp[k] # Pending =>
            IF ExpansionFails THEN vp[k].tag = "raise" /\ vp[k].exc = "RuntimeError"
            ELSE IF LookupDenied
            THEN vp[k].tag = "raise" /\ vp[k].exc = "PermissionError"
            ELSE IF PredicateTrue(k) THEN vp[k].tag = "return"
            ELSE vp[k].tag = "raise" /\ vp[k].exc = MatchingError(k)

C1_Witness ==
    /\ AllDone(vp)
    /\ vp[FILE].tag = "return"
    /\ vp[DIR].exc = "NotADirectoryError"
    /\ vp[FILE_OR_DIR].tag = "return"

\* The entity at the caller's path when permissions are left out of account.
Unlocked(f) == [n \in DOMAIN f |-> IF f[n] = "locked" THEN "dir" ELSE f[n]]
EntityAt == Stat(Unlocked(fs), ParsePath(s))

\* C2 as stated: exists(kind, path) returns true exactly when the entity at
\* the path matches the kind, and for a path where nothing exists it returns
\* false for every kind and never raises.
C2_AsStated ==
    \A k \in FileType :
        ex[k] # Pending =>
            /\ ex[k].tag = "return"
            /\ ex[k].val[1] = KindMatches(k, EntityAt)

\* C2 amended: when os.stat of the path is not denied, exists(kind, path)
\* returns, and returns true exactly when the entity found matches the kind
\* (false for every kind where nothing exists); when a directory on the way
\* is not searchable it raises PermissionError for every kind.
C2_ExistsMatchesKind ==
    \A k \in FileType :
        ex[k] # Pending =>
            IF Stat(fs, ParsePath(s)) = "EACCES"
            THEN ex[k].tag = "raise" /\ ex[k].exc = "PermissionError"
            ELSE /\ ex[k].tag = "return"
                 /\ ex[k].val[1] = KindMatches(k, EntityAt)

C2_Witness ==
    /\ AllDone(ex)
    /\ ex[FILE].val = <<TRUE>>
    /\ ex[DIR].val = <<FALSE>>
    /\ ex[FILE_OR_DIR].val = <<TRUE>>

\* C3 as stated: every call of valid_path either returns a path or fails with
\* exactly one of the three errors, which carries the expanded path.
C3_AsStated ==
    \A k \in FileType :
        vp[k] # Pending =>
            \/ vp[k].tag = "return" /\ vp[k].exc = "" /\ Len(vp[k].val) = 1
            \/ /\ vp[k].tag = "raise"
               /\ vp[k].exc \in ThreeErrors
               /\ vp[k].val = Expanded.val

\* C3 amended: every call of valid_path has exactly one outcome: it returns a
\* path, or fails with one error: one of the three, carrying the expanded
\* path, when the expansion succeeded and the lookup was not denied;
\* RuntimeError, carrying no path, when the expansion failed; PermissionError
\* when the lookup was denied.  An outcome once recorded is final.
C3_OneOutcome ==
    \A k \in FileType :
        vp[k] # Pending =>
            \/ /\ vp[k].tag = "return" /\ vp[k].exc = "" /\ Len(vp[k].val) = 1
               /\ ~ExpansionFails /\ ~LookupDenied
            \/ /\ vp[k].tag = "raise"
               /\ vp[k].exc \in ThreeErrors
               /\ ~ExpansionFails /\ ~LookupDenied
               /\ vp[k].val = Expanded.val
            \/ /\ vp[k].tag = "raise"
               /\ vp[k].exc = "RuntimeError"
               /\ ExpansionFails
               /\ vp[k].val = <<>>
            \/ /\ vp[k].tag = "raise"
               /\ vp[k].exc = "PermissionError"
               /\ LookupDenied

C3_Witness ==
    /\ vp[FILE_OR_DIR].tag = "raise"
    /\ vp[FILE_OR_DIR].exc = "NoSuchFileOrDirectoryError"
    /\ vp[FILE_OR_DIR].val = <<ParsePath(s)>>
    /\ s # <<>>

\* A string in which nothing is left to normalise: no empty component (a
\* doubled or trailing slash; exactly two leading slashes are a root of
\* their own), no "." component; "." itself names the empty path.
IsDotComponent(str, i) ==
    /\ str[i] = "."
    /\ (i = 1 \/ str[i - 1] = Sep)
    /\ (i = Len(str) \/ str[i + 1] = Sep)
NoDotComponent(str) == \A i \in 1..Len(str) : ~IsDotComponent(str, i)
IsRootString(str) == str = <<Sep>> \/ str = <<Sep, Sep>>
IsNormal(str) ==
    \/ str = <<".">>
    \/ /\ str # <<>>
       /\ NoDotComponent(str)
       /\ (str[Len(str)] = Sep => IsRootString(str))
       /\ \A i \in 1..(Len(str) - 1) :
              (str[i] = Sep /\ str[i + 1] = Sep) =>
                  (i = 1 /\ (Len(str) = 2 \/ str[3] # Sep))
IsNormalRelative(str) ==
    /\ str # <<>> /\ str # <<".">> /\ str[1] # Sep /\ IsNormal(str)

StartsWithTilde(str) == str # <<>> /\ str[1] = "~"
IsAbsolute(str) == str # <<>> /\ str[1] = Sep
\* The position of a "~" that starts the first component of a relative
\* string that is not ".": only "." components and separators come before.
IsTildePos(str, i) ==
    /\ str[i] = "~"
    /\ str[1] # Sep
    /\ (i = 1 \/ str[i - 1] = Sep)
    /\ \A j \in 1..(i - 1) : str[j] = Sep \/ IsDotComponent(str, j)
HasTilde(str) == \E i \in 1..Len(str) : IsTildePos(str, i)
TildePos(str) == CHOOSE i \in 1..Len(str) : IsTildePos(str, i)
\* the end of the component that starts at i, the component, and the rest
NextSep(str, i) ==
    IF \E j \in i..Len(str) : str[j] = Sep
    THEN CHOOSE j \in i..Len(str) : str[j] = Sep /\ \A m \in i..(j - 1) : str[m] # Sep
    ELSE Len(str) + 1
TildeComponent(str) == SubSeq(str, TildePos(str), NextSep(str, TildePos(str)) - 1)
AfterTilde(str) == SubSeq(str, NextSep(str, TildePos(str)) + 1, Len(str))
IsPrefix(a, b) == Len(a) <= Len(b) /\ SubSeq(b, 1, Len(a)) = a

Results == {vp[k] : k \in FileType} \cup {vpDefault}

\* C4 as stated: when valid_path succeeds, the returned path is exactly the
\* input string with only a leading "~" replaced by the invoking user's home
\* directory; an input without a leading "~" comes back as the same string.
C4_AsStated ==
    \A r \in Results :
        r.tag = "return" =>
            StrPath(r.val[1]) = IF StartsWithTilde(s) THEN HomeDir \o Tail(s) ELSE s

\* C4 amended: when valid_path succeeds, the returned path is the input in
\* pathlib's normal form (doubled and trailing slashes and "." components
\* dropped, the empty string becoming "."), with only a "~" or "~user" that
\* is the first component of that normal form replaced by that user's home
\* directory.  An input without such a component that is already in normal
\* form comes back as the same string and a relative one stays relative;
\* what follows the "~" component comes back unchanged when it is in normal
\* form.
C4_ReturnedPath ==
    \A r \in Results :
        r.tag = "return" =>
            LET out == StrPath(r.val[1]) IN
            /\ IsNormal(out)
            /\ ParsePath(out) = r.val[1]
            /\ IF HasTilde(s)
               THEN /\ Tail(TildeComponent(s)) \in KnownUsers \cup {<<>>}
                    /\ IsPrefix(HomeDir, out)
                    /\ IsNormalRelative(AfterTilde(s)) =>
                           out = HomeDir \o <<Sep>> \o AfterTilde(s)
                    /\ AfterTilde(s) = <<>> => out = HomeDir
               ELSE /\ IsNormal(s) => out = s
                    /\ IsAbsolute(out) <=> IsAbsolute(s)

C4_Witness ==
    /\ s = <<"~", "/", "a">>
    /\ vp[FILE].tag = "return"
    /\ StrPath(vp[FILE].val[1]) = <<"/", "a", "/", "a">>

\* C10: whenever valid_path(s, FILE) or valid_path(s, DIR) succeeds,
\* valid_path(s, FILE_OR_DIR) and valid_path(s) succeed on the same
\* filesystem and return the same path; FILE and DIR never both succeed.
C10_FileOrDirCovers ==
    /\ \A k \in {FILE, DIR} :
           vp[k].tag = "return" =>
               /\ vp[FILE_OR_DIR] # Pending => vp[FILE_OR_DIR] = vp[k]
               /\ vpDefault # Pending => vpDefault = vp[k]
    /\ ~(vp[FILE].tag = "return" /\ vp[DIR].tag = "return")

C10_Witness ==
    /\ vp[DIR].tag = "return"
    /\ vp[FILE].tag = "raise"
    /\ vpDefault.tag = "return"
    /\ vpDefault = vp[FILE_OR_DIR]

\* ------------------------------------------- claims on get_valid_filename
\* letter, digit, underscore, hyphen or period
IsAllowed(c) == c \in {"a", "5", "_", "-", "."}
AllSpace(str) == \A i \in 1..Len(str) : IsSpace(str[i])
\* how many whitespace characters start and end a string
LeadingSpace(str) ==
    Cardinality({i \in 1..Len(str) : \A j \in 1..i : IsSpace(str[j])})
TrailingSpace(str) ==
    Cardinality({i \in 1..Len(str) : \A j \in i..Len(str) : IsSpace(str[j])})
StrippedLen(str) ==
    IF AllSpace(str) THEN 0 ELSE Len(str) - LeadingSpace(str) - TrailingSpace(str)

\* C5: get_valid_filename replaces, one for one and without collapsing runs,
\* every character of the stripped input that is not a letter, digit,
\* underscore, hyphen or period with "_" and leaves every allowed character
\* in place, so every character of the output is an allowed one.
C5_OneForOne ==
    fout # <<>> =>
        LET out == fout[1] IN
        /\ Len(out) = StrippedLen(fin)
        /\ \A i \in 1..Len(out) :
               LET c == fin[LeadingSpace(fin) + i] IN
               /\ out[i] = IF IsAllowed(c) THEN c ELSE "_"
               /\ IsAllowed(out[i])

C5_Witness ==
    /\ fin = <<"5", "*", "*", "-">>
    /\ fout = << <<"5", "_", "_", "-">> >>

\* C6 as stated: for an input of single-byte characters the output has the
\* same length as the input.
C6_AsStated == fout # <<>> => Len(fout[1]) = Len(fin)

\* C6 amended: for an input of single-byte characters the output has the
\* length of the input without its leading and trailing whitespace; it has
\* the length of the input when the input neither starts nor ends with
\* whitespace.
C6_StrippedLength ==
    fout # <<>> =>
        /\ Len(fout[1]) = StrippedLen(fin)
        /\ (fin # <<>> /\ ~IsSpace(fin[1]) /\ ~IsSpace(fin[Len(fin)])) =>
               Len(fout[1]) = Len(fin)

C6_Witness ==
    /\ fin = <<" ", "*", "*", "a">>
    /\ fout # <<>>
    /\ Len(fout[1]) = 3

\* C7: get_valid_filename applied to its own output returns that output.
C7_Idempotent == fout2 # <<>> => fout2 = fout

C7_Witness ==
    /\ fin = <<" ", "a", " ", "*">>
    /\ fout = << <<"a", "_", "_">> >>
    /\ fout2 = fout

\* C8: get_valid_filename returns a string for every input string, and the
\* empty string for an empty or all-whitespace input.
C8_Total ==
    /\ fout = <<>> => ENABLED Sanitize
    /\ fout # <<>> =>
           /\ Len(fout) = 1
           /\ fout[1] \in Seq(FileChars)
           /\ AllSpace(fin) => fout[1] = <<>>

C8_Witness ==
    /\ fin = <<" ", "\t">>
    /\ fout = << <<>> >>

\* --------------------------------------------- claims on concurrent calls
\* the outcome of thread t's call when it runs alone against fs
AloneOutcome(t) ==
    IF tin[t].op = "valid_path"
    THEN valid_path(fs, home, tin[t].s, tin[t].kind)
    ELSE LET r == exists(tin[t].kind, fs, ParsePath(tin[t].s)) IN
         IF r.exc # "" THEN Raise(r.exc, <<>>) ELSE Return(r.val[1])

\* C9: no step of valid_path or exists changes the filesystem or the
\* environment, and under every interleaving each call ends with the outcome
\* it has when run alone against the same filesystem.
C9_Independent ==
    /\ [](\A t \in Threads : tpc[t] = "done" => tres[t] = AloneOutcome(t))
    /\ [][fs' = fs /\ home' = home]_vars

C9_Witness ==
    /\ tpc["t1"] = "done" /\ tpc["t2"] = "done"
    /\ tin["t1"].op = "valid_path" /\ tin["t2"].op = "valid_path"
    /\ tres["t1"].tag = "return"
    /\ tres["t2"].tag = "raise"
    /\ tin["t1"].s # tin["t2"].s

====
